---- MODULE Spec2Model ----
(***************************************************************************)
(* Model of the cart-api event consumer (pkg/reciever), of the process    *)
(* that hosts it (cmd/api/main.go) and of the cart store operations the   *)
(* HTTP handlers and the order-completion handler drive.                  *)
(*                                                                         *)
(* Spec      the consumer: Recieve's outer loop, one consumer-group        *)
(*           session per Consume call, one ConsumeClaim goroutine per      *)
(*           claimed partition, and the hosting process.                   *)
(* FairSpec  Spec with the Recieve goroutine's own steps scheduled fairly.  *)
(* SpecCart  one cart key of the store, written by a client add_item and   *)
(*           by the order-completion handler, step by step.                *)
(* SpecApi   one cart key of the store behind the HTTP handlers of         *)
(*           cart_handler.go; a create and a replace make two repository   *)
(*           calls, and other requests run between the two.                *)
(* FairClaimSpec  the consumer with one claim per session and the          *)
(*           ConsumeClaim goroutine scheduled fairly.                      *)
(* SpecCheckout  the order-api handler of "checkout" messages.              *)
(* FairSpecFetch  the web app's fetchWithRetry and getOrderByTransactionID. *)
(***************************************************************************)
EXTENDS Integers, Sequences, FiniteSets, TLC

\* ------------------------------------------------------------------ bounds

\* Messages in each partition's log (offsets 1..LogLen).
LogLen == 3

\* Consume calls Recieve may make before the model stops it.
MaxConsume == 2

\* Messages the broker may have buffered on a claim's channel.
ChanCap == 2

\* Largest quantity of a line item in a request or in the initial cart.
MaxQty == 2

\* Deliveries of the same order-completion event.
MaxDeliveries == 2

\* The partitions of the topic.
Partitions == {1, 2}

\* Errors the low-level Consume call may return.
ConsumeErrors == {"ErrBroker", "ErrClosed"}

\* Outcomes of one Handle call.
HandleResults == {"ok", "err"}

\* The item ids clients use.
ItemIds == {10, 20}

VARIABLES
    \* ---- the hosting process (main.go)
    proc,          \* "running" | "exited"
    orphanServed,  \* a cart API request was served after Recieve failed and was logged
    \* ---- Recieve (message_reciever.go:33-49)
    ctxDone,       \* the ctx passed to Recieve is cancelled
    rpc,           \* "call" | "consume" | "checkCtx" | "returned" | "logged"
    rerr,          \* Recieve's return value: "none" until it returns, "nil", or an error
    consumeCalls,  \* Consume calls made so far
    consRet,       \* what the last Consume call returned: "none" before, "nil", or an error
    doneAtRet,     \* ctx was cancelled when the last Consume call returned
    \* ---- the session of the current Consume call
    sess,          \* "none" | "joining" | "active"
    sessDone,      \* session.Context() is done
    \* ---- one ConsumeClaim goroutine per partition (message_reciever.go:63-93)
    cpc,           \* [p -> "none" | "select" | "handling" | "mark" | "ret"]
    chan,          \* [p -> messages waiting on claim.Messages()]
    chClosed,      \* [p -> claim.Messages() is closed]
    cur,           \* [p -> offset of the message taken from the channel, 0 if none]
    hres,          \* [p -> result of the last Handle call]
    markOff,       \* [p -> next offset to consume: highest marked offset + 1]
    \* ---- history of the current claim and of the run
    fed,           \* [p -> messages put on the claim's channel, in order]
    handed,        \* [p -> messages Handle was called with, in order]
    results,       \* [p -> results of the Handle calls that returned, in order]
    inflight,      \* [p -> messages whose Handle call has not returned]
    finished,      \* messages <<p, off>> whose Handle call has returned (ever)
    markedSet,     \* messages <<p, off>> passed to session.MarkMessage (ever)
    \* ---- the cart store and its two writers (SpecCart)
    store,         \* the value under the cart's key: [exists, items]
    clearMode,     \* how the completion handler clears: "empty" (replace) | "delete"
    apc,           \* add_item: "idle" | "read" | "done"
    aCart,         \* add_item's private copy of the cart
    aItem,         \* the line item add_item was called with
    ares,          \* add_item's result: "none" | "ok" | "NotFound"
    opc,           \* order-completion handler: "idle" | "read" | "done"
    oCart,         \* the handler's private copy of the cart
    ores,          \* the handler's result for the current delivery
    deliveries,    \* deliveries of the completion event handled to the end
    snap1,         \* the stored value when the first delivery had been handled
    dirty,         \* a client write reached the store after the first delivery was handled
    \* ---- the HTTP API (SpecApi)
    nreq,          \* requests answered so far
    req,           \* the last request answered: [op, id, item, body]
    before,        \* the stored value before the last request's write, or its one call
    first,         \* the stored value as that first repository call saw or left it
    pend,          \* [slot -> the create or replace between its two repository calls]
    quiet,         \* no request started its two calls since the last answer
    repoErr,       \* the repository's answer to it: "none" | "nil" | "NotFound" | "StoreFailure"
    status,        \* the HTTP status of the response, 0 before the first request
    prev,          \* the request before the last: [op, id, qty, before, ok, adjacent]
    hret,          \* what the wrapped handler returned: [isErr, isHTTP, code]
    wrote,         \* the handler wrote the response body before it returned
    \* ---- the order-api checkout-event handler (SpecCheckout)
    jpc,           \* Handle: "idle" | "try" | "checkout" | "ack" | "catch" | "nack" | "exit"
    jmsg,          \* the message being handled: 0 before the first
    jinv,          \* how the last invocation of Handle ended: "none" | "returned" |
                   \* "thrownException" | "thrownError"
    jcalls,        \* [m -> invocations of Handle with message m]
    jout,          \* [m -> outcome of the last Checkout call for m: "none" | "ok" |
                   \* "exception" | "error"]
    acks,          \* [m -> calls of message.ack()]
    nacks,         \* [m -> calls of message.nack(e)]
    \* ---- the web app's order lookup (SpecFetch)
    fpc,           \* fetchWithRetry: "sleep" | "fetch" | "catch"; then "parse" | "done"
    viaGetOrder,   \* fetchWithRetry was called by getOrderByTransactionID
    n0,            \* the retryCount of the outermost call
    retryCount,    \* the retryCount of the current call
    attempts,      \* fetch calls made
    fails,         \* attempts that ended in the catch block
    fout,          \* outcome of the last attempt
    fret,          \* what fetchWithRetry resolved to: "none" | "order" | "otherJson" | "error"
    gret           \* getOrderByTransactionID: "none" | "order" | "throw"

consVars == <<proc, orphanServed, ctxDone, rpc, rerr, consumeCalls, consRet, doneAtRet,
              sess, sessDone, cpc, chan, chClosed, cur, hres, markOff,
              fed, handed, results, inflight, finished, markedSet>>

cartVars == <<store, clearMode, apc, aCart, aItem, ares, opc, oCart, ores, deliveries,
              snap1, dirty>>

\* The cart variables only SpecCart moves.
raceVars == <<apc, aCart, aItem, ares, opc, oCart, ores, deliveries, snap1, dirty>>

apiVars == <<nreq, req, before, first, pend, quiet, repoErr, status, prev, hret, wrote>>

javaVars == <<jpc, jmsg, jinv, jcalls, jout, acks, nacks>>

fetchVars == <<fpc, viaGetOrder, n0, retryCount, attempts, fails, fout, fret, gret>>

vars == <<consVars, cartVars, apiVars, javaVars, fetchVars>>

Max(a, b) == IF a >= b THEN a ELSE b

\* ------------------------------------------------------------ initial state

InitConsumer ==
    /\ proc = "running"
    /\ orphanServed = FALSE
    /\ ctxDone = FALSE
    /\ rpc = "call"
    /\ rerr = "none"
    /\ consumeCalls = 0
    /\ consRet = "none"
    /\ doneAtRet = FALSE
    /\ sess = "none"
    /\ sessDone = FALSE
    /\ cpc = [p \in Partitions |-> "none"]
    /\ chan = [p \in Partitions |-> <<>>]
    /\ chClosed = [p \in Partitions |-> FALSE]
    /\ cur = [p \in Partitions |-> 0]
    /\ hres = [p \in Partitions |-> "ok"]
    /\ markOff = [p \in Partitions |-> 1]
    /\ fed = [p \in Partitions |-> <<>>]
    /\ handed = [p \in Partitions |-> <<>>]
    /\ results = [p \in Partitions |-> <<>>]
    /\ inflight = [p \in Partitions |-> {}]
    /\ finished = {}
    /\ markedSet = {}

\* ------------------------------------------------ Recieve: the outer loop

\* message_reciever.go:38-39: wrap a new consumerGroupHandler and call Consume.
ConsumeCall ==
    /\ proc = "running"
    /\ rpc = "call"
    /\ consumeCalls < MaxConsume
    /\ rpc' = "consume"
    /\ consumeCalls' = consumeCalls + 1
    /\ sess' = "joining"
    /\ UNCHANGED cartVars
    /\ UNCHANGED apiVars
    /\ UNCHANGED <<javaVars, fetchVars>>
    /\ UNCHANGED <<proc, orphanServed, ctxDone, rerr, consRet, doneAtRet, sessDone, cpc, chan,
                   chClosed, cur, hres, markOff, fed, handed, results, inflight,
                   finished, markedSet>>

\* Where Recieve goes when Consume returns e ("nil" or an error):
\* message_reciever.go:40-42 returns a non-nil error at once.
AfterConsumeIgnoreErr(e) == "checkCtx"
AfterConsume(e) == IF e # "nil" THEN "returned" ELSE "checkCtx"

\* What Recieve returns when Consume returned the error e.
ConsumeErrResult(e) == e

\* Consume returns e to Recieve.
ConsumeReturns(e) ==
    /\ rpc' = AfterConsume(e)
    /\ rerr' = IF AfterConsume(e) = "returned" THEN ConsumeErrResult(e) ELSE rerr
    /\ consRet' = e
    /\ doneAtRet' = ctxDone
    /\ sess' = "none"
    /\ sessDone' = FALSE
    /\ cpc' = [p \in Partitions |-> "none"]
    /\ chan' = [p \in Partitions |-> <<>>]
    /\ chClosed' = [p \in Partitions |-> FALSE]
    /\ cur' = [p \in Partitions |-> 0]
    /\ fed' = [p \in Partitions |-> <<>>]
    /\ handed' = [p \in Partitions |-> <<>>]
    /\ results' = [p \in Partitions |-> <<>>]

\* Consume fails before a session exists (broker unreachable, closed group,
\* cancelled context).
ConsumeJoinFail(e) ==
    /\ proc = "running"
    /\ rpc = "consume"
    /\ sess = "joining"
    /\ ConsumeReturns(e)
    /\ UNCHANGED cartVars
    /\ UNCHANGED apiVars
    /\ UNCHANGED <<javaVars, fetchVars>>
    /\ UNCHANGED <<proc, orphanServed, ctxDone, consumeCalls, hres, markOff, inflight,
                   finished, markedSet>>

\* The group is joined: a session starts and one ConsumeClaim goroutine is
\* started for every partition claimed, reading from the committed offset.
SessionStart(claims) ==
    /\ proc = "running"
    /\ rpc = "consume"
    /\ sess = "joining"
    /\ sess' = "active"
    /\ sessDone' = ctxDone
    /\ cpc' = [p \in Partitions |-> IF p \in claims THEN "select" ELSE "none"]
    /\ UNCHANGED cartVars
    /\ UNCHANGED apiVars
    /\ UNCHANGED <<javaVars, fetchVars>>
    /\ UNCHANGED <<proc, orphanServed, ctxDone, rpc, rerr, consumeCalls, consRet, doneAtRet,
                   chan, chClosed, cur, hres, markOff, fed, handed, results, inflight,
                   finished, markedSet>>

\* Consume returns once the session is over and every ConsumeClaim goroutine
\* has returned: nil, or the error releasing the session gave.
ConsumeSessionEnd(e) ==
    /\ proc = "running"
    /\ rpc = "consume"
    /\ sess = "active"
    /\ sessDone
    /\ \A p \in Partitions : cpc[p] \in {"none", "ret"}
    /\ ConsumeReturns(e)
    /\ UNCHANGED cartVars
    /\ UNCHANGED apiVars
    /\ UNCHANGED <<javaVars, fetchVars>>
    /\ UNCHANGED <<proc, orphanServed, ctxDone, consumeCalls, hres, markOff, inflight,
                   finished, markedSet>>

\* Where the loop goes after a nil Consume, by ctx.Err() (message_reciever.go:45-47).
AfterCheckNeverStops(cancelled) == "call"
AfterCheckAlwaysStops(cancelled) == "returned"
AfterCheck(cancelled) == IF cancelled THEN "returned" ELSE "call"

\* message_reciever.go:44-48: after a nil Consume, return nil if ctx is
\* cancelled, else go round the loop.
RecieveCheckCtx ==
    /\ proc = "running"
    /\ rpc = "checkCtx"
    /\ rpc' = AfterCheck(ctxDone)
    /\ rerr' = IF AfterCheck(ctxDone) = "returned" THEN "nil" ELSE rerr
    /\ UNCHANGED cartVars
    /\ UNCHANGED apiVars
    /\ UNCHANGED <<javaVars, fetchVars>>
    /\ UNCHANGED <<proc, orphanServed, ctxDone, consumeCalls, consRet, doneAtRet, sess, sessDone,
                   cpc, chan, chClosed, cur, hres, markOff, fed, handed, results,
                   inflight, finished, markedSet>>

\* The caller of Recieve cancels ctx; the session's context is its child.
CancelCtx ==
    /\ proc = "running"
    /\ ~ctxDone
    /\ ctxDone' = TRUE
    /\ sessDone' = IF sess = "active" THEN TRUE ELSE sessDone
    /\ UNCHANGED cartVars
    /\ UNCHANGED apiVars
    /\ UNCHANGED <<javaVars, fetchVars>>
    /\ UNCHANGED <<proc, orphanServed, rpc, rerr, consumeCalls, consRet, doneAtRet, sess, cpc,
                   chan, chClosed, cur, hres, markOff, fed, handed, results, inflight,
                   finished, markedSet>>

\* A server-side rebalance ends the session.
Rebalance ==
    /\ proc = "running"
    /\ sess = "active"
    /\ ~sessDone
    /\ sessDone' = TRUE
    /\ UNCHANGED cartVars
    /\ UNCHANGED apiVars
    /\ UNCHANGED <<javaVars, fetchVars>>
    /\ UNCHANGED <<proc, orphanServed, ctxDone, rpc, rerr, consumeCalls, consRet, doneAtRet, sess,
                   cpc, chan, chClosed, cur, hres, markOff, fed, handed, results,
                   inflight, finished, markedSet>>

\* ------------------------------------------- the claim's message channel

\* The offset the broker delivers next on p's claim: the committed offset
\* first, then one after the other.
NextOffset(p) == IF fed[p] = <<>> THEN markOff[p] ELSE fed[p][Len(fed[p])] + 1

\* The broker puts the partition's next message on the claim's channel.
BrokerFeed(p) ==
    /\ proc = "running"
    /\ sess = "active"
    /\ cpc[p] \notin {"none", "ret"}
    /\ ~chClosed[p]
    /\ Len(chan[p]) < ChanCap
    /\ NextOffset(p) <= LogLen
    /\ chan' = [chan EXCEPT ![p] = Append(@, NextOffset(p))]
    /\ fed' = [fed EXCEPT ![p] = Append(@, NextOffset(p))]
    /\ UNCHANGED cartVars
    /\ UNCHANGED apiVars
    /\ UNCHANGED <<javaVars, fetchVars>>
    /\ UNCHANGED <<proc, orphanServed, ctxDone, rpc, rerr, consumeCalls, consRet, doneAtRet, sess,
                   sessDone, cpc, chClosed, cur, hres, markOff, handed, results,
                   inflight, finished, markedSet>>

\* The claim's channel is closed (the partition consumer shuts down).
CloseChan(p) ==
    /\ proc = "running"
    /\ sess = "active"
    /\ cpc[p] \notin {"none", "ret"}
    /\ ~chClosed[p]
    /\ chClosed' = [chClosed EXCEPT ![p] = TRUE]
    /\ UNCHANGED cartVars
    /\ UNCHANGED apiVars
    /\ UNCHANGED <<javaVars, fetchVars>>
    /\ UNCHANGED <<proc, orphanServed, ctxDone, rpc, rerr, consumeCalls, consRet, doneAtRet, sess,
                   sessDone, cpc, chan, cur, hres, markOff, fed, handed, results,
                   inflight, finished, markedSet>>

\* ------------------------------------------------------------ ConsumeClaim

\* A receive that takes the newest message on the channel, not the one at
\* its head.
ClaimRecvNewest(p) ==
    /\ proc = "running"
    /\ cpc[p] = "select"
    /\ chan[p] # <<>>
    /\ chan' = [chan EXCEPT ![p] = SubSeq(@, 1, Len(@) - 1)]
    /\ cur' = [cur EXCEPT ![p] = chan[p][Len(chan[p])]]
    /\ handed' = [handed EXCEPT ![p] = Append(@, chan[p][Len(chan[p])])]
    /\ inflight' = [inflight EXCEPT ![p] = @ \cup {chan[p][Len(chan[p])]}]
    /\ cpc' = [cpc EXCEPT ![p] = "handling"]
    /\ UNCHANGED cartVars
    /\ UNCHANGED apiVars
    /\ UNCHANGED <<javaVars, fetchVars>>
    /\ UNCHANGED <<proc, orphanServed, ctxDone, rpc, rerr, consumeCalls, consRet, doneAtRet, sess,
                   sessDone, chClosed, hres, markOff, fed, results, finished, markedSet>>

\* A receive that marks the message before it calls Handle.
ClaimRecvMarkFirst(p) ==
    /\ proc = "running"
    /\ cpc[p] = "select"
    /\ chan[p] # <<>>
    /\ chan' = [chan EXCEPT ![p] = Tail(@)]
    /\ cur' = [cur EXCEPT ![p] = Head(chan[p])]
    /\ handed' = [handed EXCEPT ![p] = Append(@, Head(chan[p]))]
    /\ inflight' = [inflight EXCEPT ![p] = @ \cup {Head(chan[p])}]
    /\ cpc' = [cpc EXCEPT ![p] = "handling"]
    /\ markedSet' = markedSet \cup {<<p, Head(chan[p])>>}
    /\ markOff' = [markOff EXCEPT ![p] = Max(@, Head(chan[p]) + 1)]
    /\ UNCHANGED cartVars
    /\ UNCHANGED apiVars
    /\ UNCHANGED <<javaVars, fetchVars>>
    /\ UNCHANGED <<proc, orphanServed, ctxDone, rpc, rerr, consumeCalls, consRet, doneAtRet, sess,
                   sessDone, chClosed, hres, fed, results, finished>>

\* message_reciever.go:70, 75-81: the select takes the message at the head of
\* claim.Messages() and calls handler.Handle with it; ConsumeClaim waits for
\* the call to return.
ClaimRecv(p) ==
    /\ proc = "running"
    /\ cpc[p] = "select"
    /\ chan[p] # <<>>
    /\ chan' = [chan EXCEPT ![p] = Tail(@)]
    /\ cur' = [cur EXCEPT ![p] = Head(chan[p])]
    /\ handed' = [handed EXCEPT ![p] = Append(@, Head(chan[p]))]
    /\ inflight' = [inflight EXCEPT ![p] = @ \cup {Head(chan[p])}]
    /\ cpc' = [cpc EXCEPT ![p] = "handling"]
    /\ UNCHANGED cartVars
    /\ UNCHANGED apiVars
    /\ UNCHANGED <<javaVars, fetchVars>>
    /\ UNCHANGED <<proc, orphanServed, ctxDone, rpc, rerr, consumeCalls, consRet, doneAtRet, sess,
                   sessDone, chClosed, hres, markOff, fed, results, finished, markedSet>>

\* message_reciever.go:70-74: the channel is closed and drained: return nil.
ClaimClosed(p) ==
    /\ proc = "running"
    /\ cpc[p] = "select"
    /\ chan[p] = <<>>
    /\ chClosed[p]
    /\ cpc' = [cpc EXCEPT ![p] = "ret"]
    /\ UNCHANGED cartVars
    /\ UNCHANGED apiVars
    /\ UNCHANGED <<javaVars, fetchVars>>
    /\ UNCHANGED <<proc, orphanServed, ctxDone, rpc, rerr, consumeCalls, consRet, doneAtRet, sess,
                   sessDone, chan, chClosed, cur, hres, markOff, fed, handed, results,
                   inflight, finished, markedSet>>

\* A loop that ranges over claim.Messages() and never looks at the session's
\* context.
DonePointsNone == {}

\* The positions of ConsumeClaim at which session.Context().Done() is
\* received: only the select at the top of the loop (message_reciever.go:69, 89).
DonePointsMidHandle == {"select", "handling"}
DonePoints == {"select"}

\* message_reciever.go:89-90: the session's context is done: return nil.
ClaimSessionDone(p) ==
    /\ proc = "running"
    /\ cpc[p] \in DonePoints
    /\ sessDone
    /\ cpc' = [cpc EXCEPT ![p] = "ret"]
    /\ UNCHANGED cartVars
    /\ UNCHANGED apiVars
    /\ UNCHANGED <<javaVars, fetchVars>>
    /\ UNCHANGED <<proc, orphanServed, ctxDone, rpc, rerr, consumeCalls, consRet, doneAtRet, sess,
                   sessDone, chan, chClosed, cur, hres, markOff, fed, handed, results,
                   inflight, finished, markedSet>>

\* Where ConsumeClaim goes when Handle returned r: an error is only logged
\* (message_reciever.go:81-83) and MarkMessage follows either way.
AfterHandleReturnOnErr(r) == IF r = "err" THEN "ret" ELSE "mark"
AfterHandle(r) == "mark"

\* The Handle call for message m returns r (handler.Handle runs with
\* context.Background(): nothing cancels it).
HandleReturn(p, m, r) ==
    /\ proc = "running"
    /\ m \in inflight[p]
    /\ inflight' = [inflight EXCEPT ![p] = @ \ {m}]
    /\ finished' = finished \cup {<<p, m>>}
    /\ results' = [results EXCEPT ![p] = Append(@, r)]
    /\ IF cpc[p] = "handling" /\ cur[p] = m
         THEN /\ cpc' = [cpc EXCEPT ![p] = AfterHandle(r)]
              /\ hres' = [hres EXCEPT ![p] = r]
         ELSE UNCHANGED <<cpc, hres>>
    /\ UNCHANGED cartVars
    /\ UNCHANGED apiVars
    /\ UNCHANGED <<javaVars, fetchVars>>
    /\ UNCHANGED <<proc, orphanServed, ctxDone, rpc, rerr, consumeCalls, consRet, doneAtRet, sess,
                   sessDone, chan, chClosed, cur, markOff, fed, handed, markedSet>>

\* message_reciever.go:84: session.MarkMessage(message, ""): the offset after
\* the message becomes the next one to consume, unless a later one is marked.
ClaimMark(p) ==
    /\ proc = "running"
    /\ cpc[p] = "mark"
    /\ markedSet' = markedSet \cup {<<p, cur[p]>>}
    /\ markOff' = [markOff EXCEPT ![p] = Max(@, cur[p] + 1)]
    /\ cpc' = [cpc EXCEPT ![p] = "select"]
    /\ UNCHANGED cartVars
    /\ UNCHANGED apiVars
    /\ UNCHANGED <<javaVars, fetchVars>>
    /\ UNCHANGED <<proc, orphanServed, ctxDone, rpc, rerr, consumeCalls, consRet, doneAtRet, sess,
                   sessDone, chan, chClosed, cur, hres, fed, handed, results, inflight,
                   finished>>

\* ------------------------------------------------------ the hosting process

\* What the goroutine of main.go:95-98 does to the process once Recieve has
\* returned e: log.Error() logs and the goroutine ends.
ProcAfterRecieve(e) == "running"

\* main.go:96-97: Recieve has returned; its result is logged.
LogRecieveErr ==
    /\ proc = "running"
    /\ rpc = "returned"
    /\ rpc' = "logged"
    /\ proc' = ProcAfterRecieve(rerr)
    /\ UNCHANGED cartVars
    /\ UNCHANGED apiVars
    /\ UNCHANGED <<javaVars, fetchVars>>
    /\ UNCHANGED <<orphanServed, ctxDone, rerr, consumeCalls, consRet, doneAtRet, sess, sessDone,
                   cpc, chan, chClosed, cur, hres, markOff, fed, handed, results,
                   inflight, finished, markedSet>>

\* main.go:105-118: the HTTP server serves a cart API request.
ServeRequest ==
    /\ proc = "running"
    /\ orphanServed' = (orphanServed \/ (rpc = "logged" /\ rerr \in ConsumeErrors))
    /\ UNCHANGED cartVars
    /\ UNCHANGED apiVars
    /\ UNCHANGED <<javaVars, fetchVars>>
    /\ UNCHANGED <<proc, ctxDone, rpc, rerr, consumeCalls, consRet, doneAtRet, sess, sessDone,
                   cpc, chan, chClosed, cur, hres, markOff, fed, handed, results,
                   inflight, finished, markedSet>>

\* main.go:140-148 (SIGTERM, then os.Exit) and main.go:118 (ListenAndServe
\* fails, log.Fatal): the process ends, whatever its goroutines are doing.
ProcessExit ==
    /\ proc = "running"
    /\ proc' = "exited"
    /\ UNCHANGED cartVars
    /\ UNCHANGED apiVars
    /\ UNCHANGED <<javaVars, fetchVars>>
    /\ UNCHANGED <<orphanServed, ctxDone, rpc, rerr, consumeCalls, consRet, doneAtRet, sess,
                   sessDone, cpc, chan, chClosed, cur, hres, markOff, fed, handed,
                   results, inflight, finished, markedSet>>


\* ------------------------------------------------------- the cart store

\* A cart as stored under its key; Absent is a key with no value.
LineItems == [id : ItemIds, qty : 1..MaxQty]

Absent == [exists |-> FALSE, items |-> <<>>]

CartOf(items) == [exists |-> TRUE, items |-> items]

\* The carts a run starts from: none, an empty one, or one with up to two
\* line items of different ids.
InitialCarts ==
    {Absent, CartOf(<<>>)}
      \cup {CartOf(<<a>>) : a \in LineItems}
      \cup {CartOf(ab) : ab \in {x \in LineItems \X LineItems : x[1].id # x[2].id}}

\* A cart with no line item to show: empty, or deleted.
Cleared(cart) == cart.items = <<>>

\* A merge that adds to a line item already there but forgets to append an
\* item whose id is new.
MergeItemNoAppend(items, it) ==
    IF \E i \in 1..Len(items) : items[i].id = it.id
      THEN [i \in 1..Len(items) |->
              IF items[i].id = it.id
                THEN [items[i] EXCEPT !.qty = @ + it.qty]
                ELSE items[i]]
      ELSE items

\* add_item's merge: the quantity is added to the line item with the same
\* id, else the item is appended.
MergeItem(items, it) ==
    IF \E i \in 1..Len(items) : items[i].id = it.id
      THEN [i \in 1..Len(items) |->
              IF items[i].id = it.id
                THEN [items[i] EXCEPT !.qty = @ + it.qty]
                ELSE items[i]]
      ELSE Append(items, it)

\* What the completion handler stores for a cart it found.
ClearedValue(mode) == IF mode = "delete" THEN Absent ELSE CartOf(<<>>)

\* The completion handler's result when the cart is not in the store:
\* nothing to clear is a success.
MissingCartIsError == "NotFound"
MissingCartResult == "ok"

CartIdle ==
    /\ store = Absent
    /\ clearMode = "empty"
    /\ apc = "idle"
    /\ aCart = Absent
    /\ aItem = [id |-> 10, qty |-> 1]
    /\ ares = "none"
    /\ opc = "idle"
    /\ oCart = Absent
    /\ ores = "none"
    /\ deliveries = 0
    /\ snap1 = Absent
    /\ dirty = FALSE

InitCart ==
    /\ store \in InitialCarts
    /\ clearMode \in {"empty", "delete"}
    /\ apc = "idle"
    /\ aCart = Absent
    /\ aItem \in LineItems
    /\ ares = "none"
    /\ opc = "idle"
    /\ oCart = Absent
    /\ ores = "none"
    /\ deliveries = 0
    /\ snap1 = Absent
    /\ dirty = FALSE

\* cart_handler.go:189-195: POST /cart/{id}/item decodes the line item and
\* calls repository.AddItem, which first reads the cart; a cart that is not
\* there ends the call with NotFound.
AddItemRead ==
    /\ apc = "idle"
    /\ aCart' = store
    /\ IF store.exists
         THEN apc' = "read" /\ ares' = ares
         ELSE apc' = "done" /\ ares' = "NotFound"
    /\ UNCHANGED <<store, clearMode, aItem, opc, oCart, ores, deliveries, snap1, dirty>>
    /\ UNCHANGED consVars
    /\ UNCHANGED apiVars
    /\ UNCHANGED <<javaVars, fetchVars>>

\* repository.AddItem writes back the cart it read, with the item merged in.
AddItemWrite ==
    /\ apc = "read"
    /\ store' = CartOf(MergeItem(aCart.items, aItem))
    /\ apc' = "done"
    /\ ares' = "ok"
    /\ dirty' = (dirty \/ deliveries >= 1)
    /\ UNCHANGED <<clearMode, aCart, aItem, opc, oCart, ores, deliveries, snap1>>
    /\ UNCHANGED consVars
    /\ UNCHANGED apiVars
    /\ UNCHANGED <<javaVars, fetchVars>>

\* main.go:96: the order-completion handler is handed a delivery of the event
\* and reads the cart; a cart that is not there is left alone.
CompletionRead ==
    /\ opc = "idle"
    /\ oCart' = store
    /\ IF store.exists
         THEN /\ opc' = "read"
              /\ UNCHANGED <<ores, deliveries, snap1>>
         ELSE /\ opc' = "done"
              /\ ores' = MissingCartResult
              /\ deliveries' = deliveries + 1
              /\ snap1' = IF deliveries = 0 THEN store ELSE snap1
    /\ UNCHANGED <<store, clearMode, apc, aCart, aItem, ares, dirty>>
    /\ UNCHANGED consVars
    /\ UNCHANGED apiVars
    /\ UNCHANGED <<javaVars, fetchVars>>

\* The handler clears the cart it found.
CompletionClear ==
    /\ opc = "read"
    /\ store' = ClearedValue(clearMode)
    /\ opc' = "done"
    /\ ores' = "ok"
    /\ deliveries' = deliveries + 1
    /\ snap1' = IF deliveries = 0 THEN ClearedValue(clearMode) ELSE snap1
    /\ UNCHANGED <<clearMode, apc, aCart, aItem, ares, oCart, dirty>>
    /\ UNCHANGED consVars
    /\ UNCHANGED apiVars
    /\ UNCHANGED <<javaVars, fetchVars>>

\* The same completion event is delivered again (at-least-once delivery).
Redeliver ==
    /\ opc = "done"
    /\ deliveries < MaxDeliveries
    /\ opc' = "idle"
    /\ ores' = "none"
    /\ UNCHANGED <<store, clearMode, apc, aCart, aItem, ares, oCart, deliveries, snap1, dirty>>
    /\ UNCHANGED consVars
    /\ UNCHANGED apiVars
    /\ UNCHANGED <<javaVars, fetchVars>>

\* ---------------------------------------------------------- the HTTP API

\* Requests the model answers in one run.
MaxRequests == 3

\* net/http status codes the handlers answer with.
StatusOK == 200
StatusBadRequest == 400
StatusNotFound == 404
StatusInternalServerError == 500

\* Quantities a request body may carry: the handlers decode any integer and
\* check none (cart_handler.go:189-195, 222-228).
ReqQtys == {0 - 1, 0} \cup (1..MaxQty)

ReqItems == [id : ItemIds, qty : ReqQtys]

\* Quantities a line item of a create or replace body may carry: Create
\* (64-68) and Update (102-105) decode the body and check nothing.
BodyQtys == {0, 1}

BodyLineItems == [id : ItemIds, qty : BodyQtys]

\* The line items of the body of a create or replace request: none, one
\* line of any of these quantities, or two lines of quantity 1, of the same
\* item id or of different ones.
BodyItems ==
    {<<>>} \cup {<<a>> : a \in BodyLineItems}
      \cup {<<a, b>> : a \in {x \in BodyLineItems : x.qty = 1},
                       b \in {x \in BodyLineItems : x.qty = 1}}

\* Creates and replaces that may be between their two repository calls at
\* once: each request runs in its own goroutine.
MaxInFlight == 2

PendSlots == 1..MaxInFlight

NoPend == [op |-> "none", body |-> <<>>, before |-> Absent, first |-> Absent]

NoItem == [id |-> 0, qty |-> 0]

NoReq == [op |-> "none", id |-> 0, item |-> NoItem, body |-> <<>>]

NoPrev == [op |-> "none", id |-> 0, qty |-> 0, before |-> Absent, ok |-> FALSE,
           adjacent |-> FALSE]

\* ---- the repository, as the handlers call it through GetCreateDeleter
\* (cart_handler.go:15-22). Each operation gives the error it returns and
\* the value it leaves in the store.

HasItem(items, id) == \E i \in 1..Len(items) : items[i].id = id

StoreFailed(s) == [err |-> "StoreFailure", store |-> s]

\* Get: the cart, or ErrCartNotFound.
RepoGet(s) == [err |-> IF s.exists THEN "nil" ELSE "NotFound", store |-> s]

\* Update: writes the cart under its id, whether the id is there or not.
RepoUpdate(s, cart) == [err |-> "nil", store |-> cart]

\* models.MapCreateCartReqToCart (68): the cart of a create request, with
\* the line items of the body as they were decoded.
MapCreateCartReqToCart(body) == CartOf(body)

\* models.MapUpdateCartReqToCart (116): the cart that was read, with its
\* line items replaced by those of the body.
MapUpdateCartReqToCart(cart, body) == [cart EXCEPT !.items = body]

\* A delete that reports a key it did not find.
RepoDeleteMissingIsError(s) ==
    [err |-> IF s.exists THEN "nil" ELSE "NotFound", store |-> Absent]

\* Delete: removes the key; a key that is not there is no error.
RepoDelete(s) == [err |-> "nil", store |-> Absent]

\* AddItem: reads the cart, merges the item in, writes the cart back.
RepoAddItem(s, it) ==
    IF ~s.exists
      THEN [err |-> "NotFound", store |-> s]
      ELSE [err |-> "nil", store |-> CartOf(MergeItem(s.items, it))]

\* The line item update_item stores: the body's fields under the item id of
\* the path; the item_id of the body is ignored (main.go:110).
UpdatedItem(itemID, it) == [it EXCEPT !.id = itemID]

\* An update_item that appends the item when the cart has none with that id.
RepoUpdateItemUpsert(s, itemID, it) ==
    IF ~s.exists
      THEN [err |-> "NotFound", store |-> s]
      ELSE IF HasItem(s.items, itemID)
        THEN [err |-> "nil",
              store |-> CartOf([i \in 1..Len(s.items) |->
                                  IF s.items[i].id = itemID
                                    THEN UpdatedItem(itemID, it)
                                    ELSE s.items[i]])]
        ELSE [err |-> "nil", store |-> CartOf(Append(s.items, UpdatedItem(itemID, it)))]

\* UpdateItem: replaces the line item with that id in place; NotFound when
\* the cart or the item is not there.
RepoUpdateItem(s, itemID, it) ==
    IF ~s.exists \/ ~HasItem(s.items, itemID)
      THEN [err |-> "NotFound", store |-> s]
      ELSE [err |-> "nil",
            store |-> CartOf([i \in 1..Len(s.items) |->
                                IF s.items[i].id = itemID
                                  THEN UpdatedItem(itemID, it)
                                  ELSE s.items[i]])]

\* A delete_item that reports an item it did not find.
RepoDeleteItemMissingIsError(s, itemID) ==
    IF ~s.exists \/ ~HasItem(s.items, itemID)
      THEN [err |-> "NotFound", store |-> s]
      ELSE [err |-> "nil",
            store |-> CartOf(SelectSeq(s.items, LAMBDA x : x.id # itemID))]

\* DeleteItem: removes the line item with that id; an item that is not in
\* the cart is no error.
RepoDeleteItem(s, itemID) ==
    IF ~s.exists
      THEN [err |-> "NotFound", store |-> s]
      ELSE [err |-> "nil",
            store |-> CartOf(SelectSeq(s.items, LAMBDA x : x.id # itemID))]

\* ---- the handlers' answers (cart_handler.go). A handler decides on nil (0
\* here) or on the status code of the HTTPError it returns.

\* What a handler returns: nil, or the error models.NewHTTPError builds.
NilError == [isErr |-> FALSE, isHTTP |-> FALSE, code |-> 0]

NewHTTPError(code) == [isErr |-> TRUE, isHTTP |-> TRUE, code |-> code]

Returned(code) == IF code = 0 THEN NilError ELSE NewHTTPError(code)

\* ErrorHandler (36-47): the first header written is the status of the
\* response: the 200 that came with a body the handler wrote, else the code
\* http.Error writes for an HTTPError, else the closing WriteHeader(200).
ErrorHandler(h, wroteBody) ==
    IF wroteBody THEN StatusOK
    ELSE IF h.isErr /\ h.isHTTP THEN h.code
    ELSE StatusOK

\* json.NewEncoder(w).Encode(cart) in Create (79) and Get (145): the cart is
\* marshalled and then written to the response. The marshalling can fail
\* before anything is written; the write can fail after it sent the header.
EncodeOutcomes == {"ok", "marshalError", "writeError"}

\* Create (79-82), Get (145-148): a failed Encode is answered with an
\* HTTPError 500.
EncodeStatus(enc) == IF enc # "ok" THEN StatusInternalServerError ELSE 0

\* The Encode reached the response writer.
EncodeWrote(enc) == enc # "marshalError"

\* Create (62-72): a body that does not decode and a failed
\* repository.Update are answered 400.
CreateStatus(bad, updErr) ==
    IF bad THEN StatusBadRequest
    ELSE IF updErr # "nil" THEN StatusBadRequest
    ELSE 0

\* Create (74-77): a failed repository.Get, ErrCartNotFound included, is
\* answered 400.
CreateReadBackStatus(getErr) == IF getErr # "nil" THEN StatusBadRequest ELSE 0

\* Get (135-150).
GetStatus(err) ==
    IF err = "nil" THEN 0
    ELSE IF err = "NotFound" THEN StatusNotFound
    ELSE StatusInternalServerError

\* A replace that goes straight to repository.Update.
UpdateGetStatusNoCheck(getErr) == 0

\* Update (108-114): the cart is read first; ErrCartNotFound is 404, any
\* other error 500.
UpdateGetStatus(getErr) ==
    IF getErr = "nil" THEN 0
    ELSE IF getErr = "NotFound" THEN StatusNotFound
    ELSE StatusInternalServerError

\* Update (116-119): a failed repository.Update is 500.
UpdateWriteStatus(updErr) == IF updErr # "nil" THEN StatusInternalServerError ELSE 0

\* Delete (165-173): a failed repository.Delete is answered 400.
DeleteStatus(err) == IF err # "nil" THEN StatusBadRequest ELSE 0

\* AddItem (189-199), UpdateItem (216-233), DeleteItem (249-262): a body or
\* item id that does not parse is 400, every repository error is 500.
AddItemStatus(bad, err) ==
    IF bad THEN StatusBadRequest
    ELSE IF err # "nil" THEN StatusInternalServerError
    ELSE 0

UpdateItemStatus(bad, err) ==
    IF bad THEN StatusBadRequest
    ELSE IF err # "nil" THEN StatusInternalServerError
    ELSE 0

DeleteItemStatus(bad, err) ==
    IF bad THEN StatusBadRequest
    ELSE IF err # "nil" THEN StatusInternalServerError
    ELSE 0

\* ---- one action per request

ApiIdle ==
    /\ nreq = 0
    /\ req = NoReq
    /\ before = Absent
    /\ first = Absent
    /\ pend = [k \in PendSlots |-> NoPend]
    /\ quiet = TRUE
    /\ repoErr = "none"
    /\ status = 0
    /\ prev = NoPrev
    /\ hret = NilError
    /\ wrote = FALSE

\* The slots of the requests that are between their two repository calls.
InFlight == {k \in PendSlots : pend[k].op # "none"}

\* Requests that have started: answered or in flight.
Started == nreq + Cardinality(InFlight)

\* The slot a request takes when its first call has returned.
FreeSlot == CHOOSE k \in PendSlots \ InFlight : \A j \in PendSlots \ InFlight : k <= j

\* The response goes out: the request, what the repository said and did,
\* and the status are recorded. bef is the stored value before the request's
\* write, fst the value as the request's first call saw or left it, adj
\* says that no other request made a repository call since the answer
\* before.
Answer(r, bef, fst, adj, res, h, wroteBody, code) ==
    /\ nreq' = nreq + 1
    /\ prev' = [op |-> req.op, id |-> req.id, qty |-> req.item.qty, before |-> before,
                ok |-> (repoErr = "nil" /\ status = StatusOK),
                adjacent |-> adj]
    /\ req' = r
    /\ before' = bef
    /\ first' = fst
    /\ quiet' = TRUE
    /\ store' = res.store
    /\ repoErr' = res.err
    /\ status' = code
    /\ hret' = h
    /\ wrote' = wroteBody
    /\ UNCHANGED <<clearMode, raceVars>>
    /\ UNCHANGED consVars
    /\ UNCHANGED <<javaVars, fetchVars>>

\* A handler that makes one repository call at most returns and
\* ErrorHandler finishes the response.
Respond(r, res, code, wroteBody) ==
    /\ Answer(r, store, res.store, quiet, res, Returned(code), wroteBody,
              ErrorHandler(Returned(code), wroteBody))
    /\ pend' = pend

\* A handler returns after its second repository call, in slot k, and
\* ErrorHandler finishes the response.
RespondSecond(k, r, bef, res, code, wroteBody) ==
    /\ Answer(r, bef, pend[k].first, FALSE, res, Returned(code), wroteBody,
              ErrorHandler(Returned(code), wroteBody))
    /\ pend' = [pend EXCEPT ![k] = NoPend]

\* The first repository call of a create or replace has returned and the
\* handler goes on to its second: res is what the call left in the store.
\* Other requests and the order-completion handler run before the second
\* call is made.
FirstCallDone(op, body, res) ==
    /\ InFlight # PendSlots
    /\ pend' = [pend EXCEPT ![FreeSlot] =
                  [op |-> op, body |-> body, before |-> store, first |-> res.store]]
    /\ store' = res.store
    /\ quiet' = FALSE
    /\ UNCHANGED <<nreq, req, before, first, repoErr, status, prev, hret, wrote>>
    /\ UNCHANGED <<clearMode, raceVars>>
    /\ UNCHANGED consVars
    /\ UNCHANGED <<javaVars, fetchVars>>

\* A request the handler turned down before any repository call.
NoCall(s) == [err |-> "none", store |-> s]

\* POST /cart (62-72): the body is decoded, mapped to a cart and written with
\* repository.Update under the cart's id, whether or not a cart is stored
\* under that id.
Create(body, bad, fail) ==
    /\ Started < MaxRequests
    /\ LET upd == IF fail = "first" THEN StoreFailed(store)
                  ELSE RepoUpdate(store, MapCreateCartReqToCart(body))
           code == CreateStatus(bad, upd.err)
       IN IF code # 0
            THEN Respond([op |-> "create", id |-> 0, item |-> NoItem,
                          body |-> IF bad THEN <<>> ELSE body],
                         IF bad THEN NoCall(store) ELSE upd, code, FALSE)
            ELSE FirstCallDone("create", body, upd)

\* POST /cart (74-83): the cart is read back with repository.Get and encoded
\* onto the response.
CreateReadBack(k, fail, enc) ==
    /\ k \in InFlight
    /\ pend[k].op = "create"
    /\ LET get == IF fail = "second" THEN StoreFailed(store) ELSE RepoGet(store)
           code == CreateReadBackStatus(get.err)
       IN /\ enc # "ok" => code = 0
          /\ RespondSecond(k, [op |-> "create", id |-> 0, item |-> NoItem,
                               body |-> pend[k].body], pend[k].before, get,
                           IF code = 0 THEN EncodeStatus(enc) ELSE code,
                           code = 0 /\ EncodeWrote(enc))

\* GET /cart/{id} (135-150): the cart is read and encoded onto the response.
Get(fail, enc) ==
    /\ Started < MaxRequests
    /\ LET res == IF fail = "first" THEN StoreFailed(store) ELSE RepoGet(store)
           code == GetStatus(res.err)
       IN /\ enc # "ok" => code = 0
          /\ Respond([op |-> "get", id |-> 0, item |-> NoItem, body |-> <<>>], res,
                     IF code = 0 THEN EncodeStatus(enc) ELSE code,
                     code = 0 /\ EncodeWrote(enc))

\* PUT /cart/{id} (100-114): the body is decoded and the cart read with
\* repository.Get.
Update(body, bad, fail) ==
    /\ Started < MaxRequests
    /\ LET get == IF fail = "first" THEN StoreFailed(store) ELSE RepoGet(store)
           code == IF bad THEN StatusBadRequest ELSE UpdateGetStatus(get.err)
       IN IF code # 0
            THEN Respond([op |-> "replace", id |-> 0, item |-> NoItem,
                          body |-> IF bad THEN <<>> ELSE body],
                         IF bad THEN NoCall(store) ELSE get, code, FALSE)
            ELSE FirstCallDone("replace", body, get)

\* PUT /cart/{id} (116-120): the body is mapped onto the cart that was read
\* and the result written with repository.Update.
UpdateWrite(k, fail) ==
    /\ k \in InFlight
    /\ pend[k].op = "replace"
    /\ LET upd == IF fail = "second" THEN StoreFailed(store)
                  ELSE RepoUpdate(store,
                                  MapUpdateCartReqToCart(pend[k].first, pend[k].body))
       IN RespondSecond(k, [op |-> "replace", id |-> 0, item |-> NoItem,
                            body |-> pend[k].body], store, upd,
                        UpdateWriteStatus(upd.err), FALSE)

\* DELETE /cart/{id} (165-173).
Delete(fail) ==
    /\ Started < MaxRequests
    /\ LET res == IF fail = "first" THEN StoreFailed(store) ELSE RepoDelete(store)
       IN Respond([op |-> "delete", id |-> 0, item |-> NoItem, body |-> <<>>], res,
                  DeleteStatus(res.err), FALSE)

\* POST /cart/{id}/item (189-199).
AddItem(it, bad, fail) ==
    /\ Started < MaxRequests
    /\ LET call == IF fail = "first" THEN StoreFailed(store) ELSE RepoAddItem(store, it)
           res == IF bad THEN NoCall(store) ELSE call
       IN Respond([op |-> "add", id |-> IF bad THEN 0 ELSE it.id,
                  item |-> IF bad THEN NoItem ELSE it, body |-> <<>>], res,
                  AddItemStatus(bad, call.err), FALSE)

\* PUT /cart/{id}/item/{itemID} (216-233).
UpdateItem(itemID, it, bad, fail) ==
    /\ Started < MaxRequests
    /\ LET call == IF fail = "first" THEN StoreFailed(store)
                   ELSE RepoUpdateItem(store, itemID, it)
           res == IF bad THEN NoCall(store) ELSE call
       IN Respond([op |-> "updItem", id |-> IF bad THEN 0 ELSE itemID,
                  item |-> IF bad THEN NoItem ELSE it, body |-> <<>>], res,
                  UpdateItemStatus(bad, call.err), FALSE)

\* DELETE /cart/{id}/item/{itemID} (249-262).
DeleteItem(itemID, bad, fail) ==
    /\ Started < MaxRequests
    /\ LET call == IF fail = "first" THEN StoreFailed(store)
                   ELSE RepoDeleteItem(store, itemID)
           res == IF bad THEN NoCall(store) ELSE call
       IN Respond([op |-> "delItem", id |-> IF bad THEN 0 ELSE itemID, item |-> NoItem,
                  body |-> <<>>], res,
                  DeleteItemStatus(bad, call.err), FALSE)

\* The order-completion handler clears the cart (main.go:96); it answers no
\* HTTP request.
Clear(mode) ==
    /\ Started < MaxRequests
    /\ LET res == IF store.exists
                    THEN [err |-> "nil", store |-> ClearedValue(mode)]
                    ELSE [err |-> "nil", store |-> store]
       IN /\ Answer([op |-> "clear", id |-> 0, item |-> NoItem, body |-> <<>>],
                    store, res.store, quiet, res, NilError, FALSE, 0)
          /\ pend' = pend

InitApi ==
    /\ store = Absent
    /\ clearMode = "empty"
    /\ apc = "idle"
    /\ aCart = Absent
    /\ aItem = [id |-> 10, qty |-> 1]
    /\ ares = "none"
    /\ opc = "idle"
    /\ oCart = Absent
    /\ ores = "none"
    /\ deliveries = 0
    /\ snap1 = Absent
    /\ dirty = FALSE
    /\ ApiIdle

\* ------------------------------------- the order-api checkout-event handler

\* Messages delivered on the "checkout" channel in one run.
MaxMessages == 2

\* @Retry(maxRetries = 5) (UserCheckoutEventHandler.java:31).
MaxRetries == 5

Messages == 1..MaxMessages

\* How a call ends: it returns, it throws an Exception, or it throws a
\* Throwable that is no Exception (an Error).
CallOutcomes == {"ok", "exception", "error"}

\* How checkout.Checkout(message.getPayload()) ends (line 36).
CheckoutOutcomes == CallOutcomes

\* How message.ack() (line 37) and message.nack(e) (line 40) end.
SettleOutcomes == CallOutcomes

\* How log.info("..." + message) (line 35) and log.error("..." + message, e)
\* (line 39) end: the concatenation calls message.toString().
LogOutcomes == CallOutcomes

JavaIdle ==
    /\ jpc = "idle"
    /\ jmsg = 0
    /\ jinv = "none"
    /\ jcalls = [m \in Messages |-> 0]
    /\ jout = [m \in Messages |-> "none"]
    /\ acks = [m \in Messages |-> 0]
    /\ nacks = [m \in Messages |-> 0]

\* The channel hands the next message to Handle (line 33).
HandleInvoke ==
    /\ jpc = "idle"
    /\ jmsg < MaxMessages
    /\ jmsg' = jmsg + 1
    /\ jcalls' = [jcalls EXCEPT ![jmsg + 1] = 1]
    /\ jpc' = "try"
    /\ UNCHANGED <<jinv, jout, acks, nacks>>
    /\ UNCHANGED <<consVars, cartVars, apiVars, fetchVars>>

\* Where a call inside the try block (34-37) leaves the method: at the same
\* place when it returns, in the catch block of line 38 when it throws an
\* Exception, out of the method when it throws an Error, which
\* catch (Exception e) does not catch.
AfterTry(o, next) ==
    IF o = "ok" THEN next
    ELSE IF o = "exception" THEN "catch"
    ELSE "exit"

\* How the invocation of Handle ends when its last call ended with o.
Invocation(o) ==
    IF o = "ok" THEN "returned"
    ELSE IF o = "exception" THEN "thrownException"
    ELSE "thrownError"

\* Line 35: log.info("received user checkout event: " + message), inside
\* the try block.
HandleLogInfo(o) ==
    /\ jpc = "try"
    /\ jpc' = AfterTry(o, "checkout")
    /\ jinv' = IF o = "error" THEN Invocation(o) ELSE jinv
    /\ UNCHANGED <<jmsg, jcalls, jout, acks, nacks>>
    /\ UNCHANGED <<consVars, cartVars, apiVars, fetchVars>>

\* Line 36: checkout.Checkout(message.getPayload()).
CheckoutCall(o) ==
    /\ jpc = "checkout"
    /\ jout' = [jout EXCEPT ![jmsg] = o]
    /\ jpc' = AfterTry(o, "ack")
    /\ jinv' = IF o = "error" THEN Invocation(o) ELSE jinv
    /\ UNCHANGED <<jmsg, jcalls, acks, nacks>>
    /\ UNCHANGED <<consVars, cartVars, apiVars, fetchVars>>

\* Line 37: return message.ack(), inside the try block.
HandleAck(o) ==
    /\ jpc = "ack"
    /\ acks' = [acks EXCEPT ![jmsg] = @ + 1]
    /\ jpc' = AfterTry(o, "exit")
    /\ jinv' = IF o = "exception" THEN jinv ELSE Invocation(o)
    /\ UNCHANGED <<jmsg, jcalls, jout, nacks>>
    /\ UNCHANGED <<consVars, cartVars, apiVars, fetchVars>>

\* Line 39: log.error("..." + message, e), in the catch block: what it
\* throws leaves the method before message.nack(e) is reached.
HandleLogError(o) ==
    /\ jpc = "catch"
    /\ jpc' = IF o = "ok" THEN "nack" ELSE "exit"
    /\ jinv' = IF o = "ok" THEN jinv ELSE Invocation(o)
    /\ UNCHANGED <<jmsg, jcalls, jout, acks, nacks>>
    /\ UNCHANGED <<consVars, cartVars, apiVars, fetchVars>>

\* Line 40: return message.nack(e); what it throws leaves the method.
HandleNack(o) ==
    /\ jpc = "nack"
    /\ nacks' = [nacks EXCEPT ![jmsg] = @ + 1]
    /\ jinv' = Invocation(o)
    /\ jpc' = "exit"
    /\ UNCHANGED <<jmsg, jcalls, jout, acks>>
    /\ UNCHANGED <<consVars, cartVars, apiVars, fetchVars>>

\* @Retry (line 31): the method is invoked again when the invocation threw
\* an Exception (retryOn is Exception by default) and fewer than maxRetries
\* retries were made.
RetryOn(inv, calls) == inv = "thrownException" /\ calls <= MaxRetries

\* The invocation is over: Handle is invoked again with the same message, or
\* the handler is ready for the next one.
HandleExit ==
    /\ jpc = "exit"
    /\ IF RetryOn(jinv, jcalls[jmsg])
         THEN /\ jpc' = "try"
              /\ jcalls' = [jcalls EXCEPT ![jmsg] = @ + 1]
         ELSE /\ jpc' = "idle"
              /\ jcalls' = jcalls
    /\ UNCHANGED <<jmsg, jinv, jout, acks, nacks>>
    /\ UNCHANGED <<consVars, cartVars, apiVars, fetchVars>>

\* ------------------------------------------- the web app's order lookup

FetchIdle ==
    /\ fpc = "done"
    /\ viaGetOrder = FALSE
    /\ n0 = 0
    /\ retryCount = 0
    /\ attempts = 0
    /\ fails = 0
    /\ fout = "none"
    /\ fret = "none"
    /\ gret = "none"

\* The largest retryCount fetchWithRetry is called with directly.
MaxRetryCount == 3

\* A ceiling on the fetch calls of one run, above what any call here needs.
MaxAttempts == 8

\* getOrderByTransactionID calls fetchWithRetry(apiUrl, 5) (part_000:86).
GetOrderRetryCount == 5

\* fetchWithRetry(url, n) has been called, by getOrderByTransactionID with
\* n = 5 or by another caller with some n >= 0.
FetchCalled ==
    /\ fpc = "sleep"
    /\ viaGetOrder \in BOOLEAN
    /\ n0 \in (IF viaGetOrder THEN {GetOrderRetryCount} ELSE 0..MaxRetryCount)
    /\ retryCount = n0
    /\ attempts = 0
    /\ fails = 0
    /\ fout = "none"
    /\ fret = "none"
    /\ gret = "none"

\* How one attempt (60-72) ends: the response is ok and its body parses as
\* JSON, to an order or to something else; the response is ok and
\* response.json() throws; the response has status 500, or another status
\* that is not ok; fetch itself rejects.
FetchOutcomes == {"order", "otherJson", "badJson", "status500", "httpError", "networkError"}

\* response.ok (64).
ResponseOk(o) == o \in {"order", "otherJson", "badJson"}

\* The attempt reached "return await response.json()" (65) and it resolved.
BodyReturned(o) == o \in {"order", "otherJson"}

\* fetchWithRetry has resolved: control is back in its caller.
AfterFetch == IF viaGetOrder THEN "parse" ELSE "done"

\* await sleep(1000) (57).
Sleep ==
    /\ fpc = "sleep"
    /\ fpc' = "fetch"
    /\ UNCHANGED <<viaGetOrder, n0, retryCount, attempts, fails, fout, fret, gret>>
    /\ UNCHANGED <<consVars, cartVars, apiVars, javaVars>>

\* The try block (58-72): one fetch; a body that parsed is returned, every
\* other outcome is thrown into the catch block.
Fetch(o) ==
    /\ fpc = "fetch"
    /\ attempts < MaxAttempts
    /\ attempts' = attempts + 1
    /\ fout' = o
    /\ IF BodyReturned(o)
         THEN /\ fret' = o
              /\ fpc' = AfterFetch
              /\ fails' = fails
         ELSE /\ fret' = fret
              /\ fpc' = "catch"
              /\ fails' = fails + 1
    /\ UNCHANGED <<viaGetOrder, n0, retryCount, gret>>
    /\ UNCHANGED <<consVars, cartVars, apiVars, javaVars>>

\* A catch block that always retries.
RetryAgainAlways(rc) == TRUE

\* if (retryCount != 0) (76).
RetryAgain(rc) == rc # 0

\* The catch block (73-80): the call recurses with retryCount - 1, or it
\* returns the error it caught.
Catch ==
    /\ fpc = "catch"
    /\ IF RetryAgain(retryCount)
         THEN /\ retryCount' = retryCount - 1
              /\ fpc' = "sleep"
              /\ fret' = fret
         ELSE /\ retryCount' = retryCount
              /\ fpc' = AfterFetch
              /\ fret' = "error"
    /\ UNCHANGED <<viaGetOrder, n0, attempts, fails, fout, gret>>
    /\ UNCHANGED <<consVars, cartVars, apiVars, javaVars>>

\* OrderSchema.parse(data) (87): an order passes; any other JSON value and
\* the Error fetchWithRetry returned do not, and parse throws.
OrderSchemaParse(data) == data = "order"

\* getOrderByTransactionID after the await (86-91): the parsed order is
\* returned, or the catch block throws 'Failed to fetch user orders'.
GetOrderParse ==
    /\ fpc = "parse"
    /\ gret' = IF OrderSchemaParse(fret) THEN "order" ELSE "throw"
    /\ fpc' = "done"
    /\ UNCHANGED <<viaGetOrder, n0, retryCount, attempts, fails, fout, fret>>
    /\ UNCHANGED <<consVars, cartVars, apiVars, javaVars>>

\* ---------------------------------------------------------- specification

NextConsumer ==
    \/ ConsumeCall
    \/ \E e \in ConsumeErrors : ConsumeJoinFail(e)
    \/ \E claims \in SUBSET Partitions : SessionStart(claims)
    \/ \E e \in ConsumeErrors \cup {"nil"} : ConsumeSessionEnd(e)
    \/ RecieveCheckCtx
    \/ CancelCtx
    \/ Rebalance
    \/ \E p \in Partitions : BrokerFeed(p)
    \/ \E p \in Partitions : CloseChan(p)
    \/ \E p \in Partitions : ClaimRecv(p)
    \/ \E p \in Partitions : ClaimClosed(p)
    \/ \E p \in Partitions : ClaimSessionDone(p)
    \/ \E p \in Partitions : \E m \in 1..LogLen : \E r \in HandleResults : HandleReturn(p, m, r)
    \/ \E p \in Partitions : ClaimMark(p)
    \/ LogRecieveErr
    \/ ServeRequest
    \/ ProcessExit

Init == InitConsumer /\ CartIdle /\ ApiIdle /\ JavaIdle /\ FetchIdle

Next == NextConsumer

Spec == Init /\ [][Next]_vars

\* Recieve runs in a goroutine of its own (main.go:95): the steps of its loop
\* that wait for nothing are taken once they can be.
FairSpec == Spec /\ WF_vars(RecieveCheckCtx) /\ WF_vars(ConsumeCall)

\* The consumer with sessions that claim one partition at most: the
\* ConsumeClaim calls of a session share only the session's context, so the
\* course of one call is followed on its own.
OneClaim == {c \in SUBSET Partitions : Cardinality(c) <= 1}

NextOneClaim ==
    \/ ConsumeCall
    \/ \E e \in ConsumeErrors : ConsumeJoinFail(e)
    \/ \E claims \in OneClaim : SessionStart(claims)
    \/ \E e \in ConsumeErrors \cup {"nil"} : ConsumeSessionEnd(e)
    \/ RecieveCheckCtx
    \/ CancelCtx
    \/ Rebalance
    \/ \E p \in Partitions : BrokerFeed(p)
    \/ \E p \in Partitions : CloseChan(p)
    \/ \E p \in Partitions : ClaimRecv(p)
    \/ \E p \in Partitions : ClaimClosed(p)
    \/ \E p \in Partitions : ClaimSessionDone(p)
    \/ \E p \in Partitions : \E m \in 1..LogLen : \E r \in HandleResults : HandleReturn(p, m, r)
    \/ \E p \in Partitions : ClaimMark(p)
    \/ LogRecieveErr
    \/ ServeRequest
    \/ ProcessExit

SpecOneClaim == Init /\ [][NextOneClaim]_vars

\* Every ConsumeClaim call runs in a goroutine of its own (see the note at
\* message_reciever.go:64-67): a step it can take without waiting is taken,
\* a Handle call it waits for returns, and a select that finds the session's
\* context done time and again takes that case in the end.
FairClaimSpec ==
    /\ SpecOneClaim
    /\ \A p \in Partitions :
         /\ SF_vars(ClaimSessionDone(p))
         /\ WF_vars(ClaimRecv(p))
         /\ WF_vars(ClaimClosed(p))
         /\ WF_vars(ClaimMark(p))
         /\ WF_vars(\E m \in 1..LogLen : \E r \in HandleResults : HandleReturn(p, m, r))

NextCart ==
    \/ AddItemRead
    \/ AddItemWrite
    \/ CompletionRead
    \/ CompletionClear
    \/ Redeliver

InitCartSpec == InitConsumer /\ InitCart /\ ApiIdle /\ JavaIdle /\ FetchIdle

SpecCart == InitCartSpec /\ [][NextCart]_vars

\* A bad body or path comes with no store failure: the handler returns
\* before any repository call.
FailsOf(bad, points) == IF bad THEN {"none"} ELSE points

NextApi ==
    \/ \E body \in BodyItems : \E bad \in BOOLEAN :
          \E fail \in FailsOf(bad, {"none", "first"}) : Create(body, bad, fail)
    \/ \E k \in PendSlots : \E fail \in {"none", "second"} : \E enc \in EncodeOutcomes :
          CreateReadBack(k, fail, enc)
    \/ \E fail \in {"none", "first"} : \E enc \in EncodeOutcomes : Get(fail, enc)
    \/ \E body \in BodyItems : \E bad \in BOOLEAN :
          \E fail \in FailsOf(bad, {"none", "first"}) : Update(body, bad, fail)
    \/ \E k \in PendSlots : \E fail \in {"none", "second"} : UpdateWrite(k, fail)
    \/ \E fail \in {"none", "first"} : Delete(fail)
    \/ \E it \in ReqItems : \E bad \in BOOLEAN :
          \E fail \in FailsOf(bad, {"none", "first"}) : AddItem(it, bad, fail)
    \/ \E itemID \in ItemIds : \E it \in ReqItems : \E bad \in BOOLEAN :
          \E fail \in FailsOf(bad, {"none", "first"}) : UpdateItem(itemID, it, bad, fail)
    \/ \E itemID \in ItemIds : \E bad \in BOOLEAN :
          \E fail \in FailsOf(bad, {"none", "first"}) : DeleteItem(itemID, bad, fail)
    \/ \E mode \in {"empty", "delete"} : Clear(mode)

InitApiSpec == InitConsumer /\ InitApi /\ JavaIdle /\ FetchIdle

SpecApi == InitApiSpec /\ [][NextApi]_vars

NextCheckout ==
    \/ HandleInvoke
    \/ \E o \in LogOutcomes : HandleLogInfo(o)
    \/ \E o \in CheckoutOutcomes : CheckoutCall(o)
    \/ \E o \in SettleOutcomes : HandleAck(o)
    \/ \E o \in LogOutcomes : HandleLogError(o)
    \/ \E o \in SettleOutcomes : HandleNack(o)
    \/ HandleExit

SpecCheckout == Init /\ [][NextCheckout]_vars

InitFetchSpec == InitConsumer /\ CartIdle /\ ApiIdle /\ JavaIdle /\ FetchCalled

NextFetch ==
    \/ Sleep
    \/ \E o \in FetchOutcomes : Fetch(o)
    \/ Catch
    \/ GetOrderParse

\* Every sleep, fetch and parse the call awaits settles.
FairSpecFetch == InitFetchSpec /\ [][NextFetch]_vars /\ WF_vars(NextFetch)

\* ------------------------------------------------- claims on the consumer

IsPrefix(a, b) == Len(a) <= Len(b) /\ a = SubSeq(b, 1, Len(a))

NoRepeat(q) == \A i, j \in 1..Len(q) : i # j => q[i] # q[j]

\* C1: within one claim the handler is called with the messages in the order
\* they came on the claim's channel, none skipped and none twice, and a Handle
\* call has returned before the next one starts.
C1_InOrderOneAtATime ==
    \A p \in Partitions :
        /\ IsPrefix(handed[p], fed[p])
        /\ Len(handed[p]) = Len(fed[p]) - Len(chan[p])
        /\ NoRepeat(handed[p])
        /\ Cardinality(inflight[p]) <= 1
        /\ Len(results[p]) + Cardinality(inflight[p]) = Len(handed[p])
        /\ inflight[p] # {} => inflight[p] = {handed[p][Len(handed[p])]}

\* Both partitions have a Handle call in progress at once: partition 1 on
\* the second of its three messages, after the call for the first returned
\* and while the third waits on the channel.
C1_Witness ==
    /\ fed[1] = <<1, 2, 3>>
    /\ handed[1] = <<1, 2>>
    /\ chan[1] = <<3>>
    /\ inflight[1] = {2}
    /\ results[1] = <<"ok">>
    /\ inflight[2] = {1}

\* C2: only messages whose Handle call has returned are marked; a message
\* whose handling has not finished is unmarked and at or after the offset the
\* next claim starts from.
C2_MarkedOnlyAfterHandled ==
    /\ markedSet \subseteq finished
    /\ \A p \in Partitions : \A m \in inflight[p] :
            /\ <<p, m>> \notin markedSet
            /\ markOff[p] <= m

\* The process ended while the second message of partition 1 was being
\* handled, the first one marked.
C2_Witness ==
    /\ proc = "exited"
    /\ inflight[1] = {2}
    /\ <<1, 1>> \in markedSet
    /\ <<1, 2>> \notin markedSet

\* C3: when Handle returns an error for m, ConsumeClaim goes on to MarkMessage
\* and not to a return; m is marked like any other message, is not handed
\* over again in the claim, and the messages after it are handed over.
C3_ErrState ==
    \A p \in Partitions : \A i \in 1..Len(results[p]) :
        (results[p][i] = "err" /\ i <= Len(handed[p])) =>
            /\ \/ <<p, handed[p][i]>> \in markedSet
               \/ cpc[p] = "mark" /\ cur[p] = handed[p][i]
            /\ \A j \in 1..Len(handed[p]) : j # i => handed[p][j] # handed[p][i]
            /\ IsPrefix(handed[p], fed[p])
            /\ Len(handed[p]) = Len(fed[p]) - Len(chan[p])

C3_ErrStep ==
    \A p \in Partitions :
        /\ (Len(results'[p]) = Len(results[p]) + 1 /\ results'[p][Len(results'[p])] = "err")
              => (cpc'[p] = "mark" /\ cur'[p] = cur[p])
        /\ (cpc[p] = "mark" /\ cpc'[p] # "mark" /\ proc' = "running" /\ sess' = "active")
              => (cpc'[p] = "select" /\ <<p, cur[p]>> \in markedSet')

C3_HandlerErrorNonFatal == [](C3_ErrState) /\ [][C3_ErrStep]_vars

\* The first message of partition 1 failed, was marked, and the second one
\* has been handed to the handler.
C3_Witness ==
    /\ handed[1] = <<1, 2>>
    /\ results[1][1] = "err"
    /\ <<1, 1>> \in markedSet
    /\ cpc[1] \in {"handling", "mark", "select"}

\* A step of the loop after a nil Consume: with ctx not cancelled Recieve does
\* not return but is back at the Consume call, and that call joins anew.
C4_Step ==
    /\ (rpc = "checkCtx" /\ ~ctxDone /\ rpc' # "checkCtx")
          => (rpc' = "call" /\ rerr' = "none")
    /\ (rpc = "call" /\ rpc' # "call")
          => (rpc' = "consume" /\ sess' = "joining" /\ consumeCalls' = consumeCalls + 1)

\* After a nil Consume with ctx not cancelled, Consume is called again
\* unless ctx is cancelled or the process ends first (or the model's cap on
\* Consume calls is reached).
C4_Live ==
    (rpc = "checkCtx" /\ ~ctxDone)
        ~> (rpc = "consume" \/ ctxDone \/ proc = "exited" \/ consumeCalls = MaxConsume)

\* C4: when a Consume call returns nil and ctx is not cancelled, Recieve
\* does not return: it goes round the loop and calls Consume again, which
\* starts a new session with new claims.
C4_SurvivesRebalance == [][C4_Step]_vars /\ C4_Live

\* In the second session, with ctx not cancelled, a message of partition 2 is
\* handed to the handler; partition 1, marked in the first session, is not
\* claimed now.
C4_Witness ==
    /\ consumeCalls = 2
    /\ ~ctxDone
    /\ sess = "active"
    /\ cpc[1] = "none"
    /\ markOff[1] = 2
    /\ handed[2] = <<1>>

\* C5 as stated: once a Consume call has returned with ctx cancelled, Recieve
\* returns nil and calls Consume no more.
C5_AsStated ==
    doneAtRet =>
        /\ rpc \in {"checkCtx", "returned", "logged"}
        /\ rpc \in {"returned", "logged"} => rerr = "nil"

\* C5, amended: once a Consume call has returned with ctx cancelled, Recieve
\* returns what that call returned (nil, or its error) and calls Consume no
\* more.
C5_ReturnsAfterCancel ==
    doneAtRet =>
        /\ rpc \in {"checkCtx", "returned", "logged"}
        /\ rpc = "checkCtx" => consRet = "nil"
        /\ rpc \in {"returned", "logged"} => rerr = consRet

\* Recieve returned nil after a rebalance, a second Consume call and a
\* cancellation during it.
C5_Witness ==
    /\ doneAtRet
    /\ rpc = "returned"
    /\ rerr = "nil"
    /\ consumeCalls = 2

\* C6: a ConsumeClaim that has returned has no Handle call in progress, and
\* every message it handed over has been handled to the end and marked.
C6_NoMidMessageCancel ==
    \A p \in Partitions :
        cpc[p] = "ret" =>
            /\ inflight[p] = {}
            /\ Len(results[p]) = Len(handed[p])
            /\ \A i \in 1..Len(handed[p]) :
                  /\ <<p, handed[p][i]>> \in finished
                  /\ <<p, handed[p][i]>> \in markedSet

\* ctx is cancelled: the claim of partition 1 has returned after its message,
\* with one more left on its channel, while partition 2's Handle call is
\* still running.
C6_Witness ==
    /\ ctxDone
    /\ sessDone
    /\ cpc[1] = "ret"
    /\ handed[1] = <<1>>
    /\ chan[1] = <<2>>
    /\ cpc[2] = "handling"
    /\ inflight[2] = {1}

\* C7: once Consume has returned an error, Recieve has returned that error
\* and is not in the loop any more, cancelled or not.
C7_FatalErrorPropagates ==
    consRet \in ConsumeErrors =>
        /\ rpc \in {"returned", "logged"}
        /\ rerr = consRet

\* The second Consume call failed with ctx cancelled.
C7_Witness ==
    /\ rpc = "returned"
    /\ rerr = "ErrBroker"
    /\ consumeCalls = 2
    /\ ctxDone

\* C8: once Recieve has returned a consumer failure and it is logged, the
\* process is over and serves no cart API request.
C8_FailureEndsProcess ==
    (rpc = "logged" /\ rerr \in ConsumeErrors) =>
        /\ proc = "exited"
        /\ ~orphanServed

\* ------------------------------------------------ claims on the cart store

\* C9: every delivery of the completion event is handled with success, and
\* with no client write since the first delivery was handled the cart is
\* cleared and is what the first handling left.
C9_CompletionIdempotent ==
    /\ opc = "done" => ores = "ok"
    /\ (opc = "done" /\ deliveries >= 1 /\ ~dirty) =>
            /\ Cleared(store)
            /\ store = snap1

\* The event was handled twice by a handler that deletes, the second time
\* finding no cart; a client add that read the cart with its items has not
\* written.
C9_Witness ==
    /\ clearMode = "delete"
    /\ deliveries = 2
    /\ opc = "done"
    /\ oCart = Absent
    /\ store = Absent
    /\ apc = "read"
    /\ aCart.items # <<>>
    /\ ~dirty

\* The cart holds a line item with the id add_item was called with, of at
\* least the quantity added.
HasAdded(cart) ==
    \E i \in 1..Len(cart.items) :
        cart.items[i].id = aItem.id /\ cart.items[i].qty >= aItem.qty

\* C10: when the add_item and the completion handler have both ended, however
\* their reads and writes were interleaved, the cart is cleared or holds the
\* added item.
C10_ClearedOrAdded ==
    (apc = "done" /\ opc = "done") => (Cleared(store) \/ HasAdded(store))

\* add_item read the cart before the handler cleared it and wrote after: the
\* cleared cart holds the added item next to an item from before the clear.
C10_Witness ==
    /\ apc = "done"
    /\ ares = "ok"
    /\ opc = "done"
    /\ deliveries = 1
    /\ dirty
    /\ Len(store.items) = 2
    /\ HasAdded(store)

\* The positions of a ConsumeClaim call that has not returned.
InClaim == {"select", "handling", "mark"}

\* C20 as stated: once the session's context is done, ConsumeClaim starts no
\* further Handle call: it returns after at most the call in flight.
C20_AsStated ==
    [][\A p \in Partitions :
         (sessDone /\ cpc[p] \in InClaim) => Len(handed'[p]) <= Len(handed[p])]_vars

\* ConsumeClaim returns from the select only, on a done session context or on
\* a closed and drained channel: the two places that return nil.
C20_ReturnStep ==
    \A p \in Partitions :
      (cpc[p] # "ret" /\ cpc'[p] = "ret") =>
        /\ cpc[p] = "select"
        /\ sessDone \/ (chClosed[p] /\ chan[p] = <<>>)

\* C20: once the session's context is done, and likewise once the claim's
\* channel is closed, ConsumeClaim returns in the end (as long as the process
\* lives), possibly after Handle calls for messages that were waiting on
\* the channel; it returns nil only, never from the Handle error path.
C20_ReturnsOnDone ==
    /\ \A p \in Partitions :
         (sessDone /\ cpc[p] \in InClaim) ~> (cpc[p] \notin InClaim \/ proc = "exited")
    /\ \A p \in Partitions :
         (chClosed[p] /\ cpc[p] \in InClaim) ~> (cpc[p] \notin InClaim \/ proc = "exited")
    /\ [][C20_ReturnStep]_vars

\* A ConsumeClaim call has returned on the done session context, with its
\* channel still open, after every Handle call it made had returned.
C20_Witness ==
    \E p \in Partitions :
      /\ cpc[p] = "ret"
      /\ sessDone
      /\ ~chClosed[p]
      /\ handed[p] # <<>>
      /\ Len(results[p]) = Len(handed[p])

\* ------------------------------------------------- claims on the HTTP API

\* The last request answered was op, and the store is as its answer left
\* it: no request has made a repository call since.
Last(op) == req.op = op /\ quiet

\* The last request answered came right after the one before: no other
\* request made a repository call in between.
InARow == prev.adjacent

\* The line items of a cart with, and without, a given item id.
LinesOf(items, id) == SelectSeq(items, LAMBDA x : x.id = id)

Others(items, id) == SelectSeq(items, LAMBDA x : x.id # id)

\* The quantity a cart holds of an item id: 0 when it has no such line.
QtyOf(items, id) == IF HasItem(items, id) THEN LinesOf(items, id)[1].qty ELSE 0

\* The last two requests were add_item calls for the same item id and the
\* repository carried out both.
TwoAdds ==
    /\ prev.op = "add" /\ prev.ok /\ InARow
    /\ Last("add") /\ repoErr = "nil"
    /\ req.id = prev.id

\* C11: two add_item calls in a row for the same item id, with quantities a
\* then b, leave exactly one line item with that id, whose quantity is what
\* the cart held before plus a + b (the result of a single add_item of
\* a + b); every other line item is as it was.
C11_AddsSum ==
    TwoAdds =>
      /\ Len(LinesOf(store.items, req.id)) = 1
      /\ QtyOf(store.items, req.id)
           = QtyOf(prev.before.items, req.id) + prev.qty + req.item.qty
      /\ Others(store.items, req.id) = Others(prev.before.items, req.id)
      /\ store = RepoAddItem(prev.before,
                             [id |-> req.id, qty |-> prev.qty + req.item.qty]).store

\* C12: a delete_item the repository carried out leaves no line item with
\* that id in the cart and every other line item as it was, and that is what
\* a following get returns; on a cart that has no line item with that id
\* the call succeeds all the same and leaves the cart as it was.
C12_DeleteItemRemoves ==
    /\ (Last("delItem") /\ repoErr = "nil") =>
         /\ status = StatusOK
         /\ store.exists
         /\ ~HasItem(store.items, req.id)
         /\ store.items = Others(before.items, req.id)
    /\ (Last("get") /\ repoErr = "nil" /\ prev.op = "delItem" /\ prev.ok /\ InARow) =>
         /\ store = before
         /\ ~HasItem(store.items, prev.id)
         /\ store.items = Others(prev.before.items, prev.id)
    /\ (/\ Last("delItem") /\ req.id # 0 /\ repoErr # "StoreFailure"
        /\ before.exists /\ ~HasItem(before.items, req.id)) =>
         /\ repoErr = "nil"
         /\ status = StatusOK
         /\ store = before

\* A get after the delete_item of one of two line items.
C12_Witness ==
    /\ Last("get") /\ repoErr = "nil"
    /\ prev.op = "delItem" /\ prev.ok /\ InARow
    /\ HasItem(prev.before.items, prev.id)
    /\ Len(store.items) = 1

\* C13: delete is idempotent: unless the store fails, every delete succeeds
\* and leaves no cart, whether the cart was there or never created; of two
\* deletes in a row both succeed and the cart is absent after each.
C13_DeleteIdempotent ==
    /\ (Last("delete") /\ repoErr # "StoreFailure") =>
         /\ repoErr = "nil"
         /\ status = StatusOK
         /\ store = Absent
    /\ (Last("delete") /\ repoErr = "nil" /\ prev.op = "delete" /\ prev.ok /\ InARow) =>
         /\ before = Absent
         /\ store = Absent
         /\ status = StatusOK

\* Two deletes in a row of a cart that was there.
C13_Witness ==
    /\ prev.op = "delete" /\ prev.ok /\ prev.before.exists /\ InARow
    /\ Last("delete") /\ repoErr = "nil" /\ status = StatusOK

\* The update_item request reached the repository and the store did not fail.
UpdateItemCalled == Last("updItem") /\ req.id # 0 /\ repoErr # "StoreFailure"

\* C14: update_item is answered NotFound by the repository when the cart, or
\* the line item, is not there, and then the stored state is as it was (no
\* cart created, no item appended); when the item is there its fields are
\* replaced in place and every other line item is as it was.
C14_UpdateItemNotFound ==
    /\ (UpdateItemCalled /\ (~before.exists \/ ~HasItem(before.items, req.id))) =>
         /\ repoErr = "NotFound"
         /\ store = before
    /\ (UpdateItemCalled /\ before.exists /\ HasItem(before.items, req.id)) =>
         /\ repoErr = "nil"
         /\ store.exists
         /\ Len(store.items) = Len(before.items)
         /\ \A i \in 1..Len(before.items) :
              store.items[i] = IF before.items[i].id = req.id
                                 THEN [id |-> req.id, qty |-> req.item.qty]
                                 ELSE before.items[i]

\* update_item for an item id the cart, which has another item, does not hold.
C14_Witness ==
    /\ UpdateItemCalled
    /\ before.exists /\ before.items # <<>>
    /\ ~HasItem(before.items, req.id)
    /\ repoErr = "NotFound"

\* The create or replace request reached the repository and the store did
\* not fail.
WriteCalled(op) == Last(op) /\ repoErr \notin {"none", "StoreFailure"}

\* The request was served: the response is 200, unless the marshalling of
\* the cart it answers with failed, which is answered 500.
AnsweredOK ==
    \/ status = StatusOK
    \/ /\ hret = NewHTTPError(StatusInternalServerError)
       /\ repoErr = "nil" /\ ~wrote
       /\ status = StatusInternalServerError

\* C15 as stated: a create and a replace alike write the cart of the request
\* whether or not its id is in the store.
C15_AsStated ==
    (WriteCalled("create") \/ WriteCalled("replace")) =>
      /\ store = CartOf(req.body)
      /\ AnsweredOK

\* C15: the repository's update writes without an existence check, so a
\* create stores the cart of the request whether or not a cart was stored
\* under its id, creating the cart or replacing it, and is answered with it
\* unless another writer changed or removed the cart before the create read
\* it back. A replace reads the cart first: when the read does not find it
\* the replace is answered 404 and creates nothing; when the read finds it
\* the replace writes the cart of the request, also when the cart was
\* removed between the read and the write, and so creates it again. A get
\* right after a create or replace that succeeded returns the cart.
C15_UpsertOnCreate ==
    /\ WriteCalled("create") =>
         /\ first = CartOf(req.body)
         /\ store = first => (repoErr = "nil" /\ AnsweredOK)
         /\ repoErr = "NotFound" => (store = Absent /\ status = StatusBadRequest)
    /\ (WriteCalled("replace") /\ first.exists) =>
         /\ repoErr = "nil"
         /\ store = CartOf(req.body)
         /\ status = StatusOK
    /\ (WriteCalled("replace") /\ ~first.exists) =>
         /\ repoErr = "NotFound"
         /\ store = before /\ store = Absent
         /\ status = StatusNotFound
    /\ (Last("get") /\ repoErr # "StoreFailure"
          /\ prev.op \in {"create", "replace"} /\ prev.ok /\ InARow) =>
         /\ repoErr = "nil"
         /\ store.exists
         /\ store = before
         /\ AnsweredOK

\* A get right after a create that found another cart stored under its id:
\* the cart of the create is the one returned.
C15_Witness ==
    /\ Last("get") /\ repoErr = "nil" /\ status = StatusOK
    /\ prev.op = "create" /\ prev.ok /\ InARow
    /\ prev.before.exists /\ prev.before # store
    /\ store.items # <<>>

\* No two line items of the list have the same item id.
UniqueIds(items) == \A i, j \in 1..Len(items) : i # j => items[i].id # items[j].id

\* C16: whatever create, replace, add_item, update_item, delete_item, delete
\* and clear requests were answered, the stored cart has no two line items
\* with the same item id.
C16_UniqueItemIds == UniqueIds(store.items) /\ UniqueIds(before.items)

\* C17: every stored line item has a quantity of at least 1.
C17_QuantityAtLeastOne ==
    \A i \in 1..Len(store.items) : store.items[i].qty >= 1

\* C18: a NotFound from the repository is answered 404.
C18_NotFoundIs404 ==
    (req.op \in {"get", "replace", "add", "updItem", "delItem"} /\ repoErr = "NotFound")
      => status = StatusNotFound

\* C19: a failure of the store is answered with a 5xx status.
C19_StoreFailureIs5xx == repoErr = "StoreFailure" => status \in 500..599

\* The last request went through ErrorHandler (main.go:105-111).
Wrapped == req.op \in {"create", "get", "replace", "delete", "add", "updItem", "delItem"}

\* C22 as stated: whenever the wrapped handler returns an error the status
\* of the response is the error's code, and the status is 200 only when the
\* handler returned nil.
C22_AsStated ==
    Wrapped =>
      /\ hret.isErr => status = hret.code
      /\ status = StatusOK => ~hret.isErr

\* A get whose cart was found and marshalled, but whose write onto the
\* response failed after the header had gone out.
C22_Witness ==
    /\ req.op = "get"
    /\ repoErr = "nil"
    /\ hret.isErr /\ wrote
    /\ status = StatusOK

\* ------------------------------------- claims on the checkout-event handler

\* Handle has returned for message m and will not be invoked with it again.
Handled(m) == m < jmsg \/ (m = jmsg /\ jpc = "idle")

\* C21: every message is settled once at most, acked only after a Checkout
\* call that returned and nacked only after one that threw; once Handle is
\* through with a message it is settled exactly once: acked if and only if
\* Checkout returned, nacked if and only if it threw.
C21_SettledOnce ==
    \A m \in Messages :
      /\ acks[m] + nacks[m] <= 1
      /\ acks[m] = 1 => jout[m] = "ok"
      /\ nacks[m] = 1 => jout[m] \in {"exception", "error"}
      /\ Handled(m) =>
           /\ acks[m] + nacks[m] = 1
           /\ acks[m] = 1 <=> jout[m] = "ok"
           /\ nacks[m] = 1 <=> jout[m] \in {"exception", "error"}

\* Handle is through with a message it neither acked nor nacked although
\* Checkout was called, and with one it both acked and nacked in a single
\* invocation.
C21_Witness ==
    \E m1, m2 \in Messages :
      /\ Handled(m1) /\ acks[m1] = 0 /\ nacks[m1] = 0 /\ jout[m1] # "none"
      /\ Handled(m2) /\ jcalls[m2] = 1 /\ acks[m2] = 1 /\ nacks[m2] = 1

\* ------------------------------------------- claims on the order lookup

\* C23 as stated: fetchWithRetry(url, n) makes at most n+1 attempts; the
\* first attempt whose response is ok ends it with the parsed body; after n+1
\* failed attempts it stops and its caller gets the failure, and
\* getOrderByTransactionID returns no order then.
C23_AsStated ==
    /\ attempts <= n0 + 1
    /\ ResponseOk(fout) => (fpc \in {"parse", "done"} /\ fret = fout)
    /\ fails = n0 + 1 => (fpc \in {"catch", "parse", "done"} /\ gret # "order")

\* What holds of every state of a call of fetchWithRetry(url, n0).
C23_Bounded ==
    /\ attempts <= n0 + 1
    /\ retryCount = n0 - fails + (IF fpc = "catch" \/ fret = "error" THEN 1 ELSE 0)
    /\ fails <= attempts /\ attempts <= fails + 1
    /\ BodyReturned(fout) => (fpc \in {"parse", "done"} /\ fret = fout /\ attempts = fails + 1)
    /\ fout = "badJson" => (attempts = fails /\ fret \in {"none", "error"})
    /\ fret = "error" <=> (fpc \in {"parse", "done"} /\ fails = n0 + 1)
    /\ fret = "error" => attempts = n0 + 1
    /\ fpc = "done" => fret # "none"
    /\ gret = "order" => (fret = "order" /\ fails <= n0)
    /\ (fpc = "done" /\ viaGetOrder) => gret # "none"

\* C23: fetchWithRetry(url, n) with n >= 0 terminates after at most n+1
\* fetch attempts. An attempt whose response is ok and whose body parses as
\* JSON ends it with that body and no further attempt; an attempt whose
\* response is ok but whose body does not parse is a failed attempt like any
\* other and is retried. After n+1 failed attempts it stops and resolves to
\* the error, and getOrderByTransactionID throws instead of returning an
\* order.
C23_Terminates == []C23_Bounded /\ <>(fpc = "done")

\* getOrderByTransactionID threw after six failed attempts, one of them an
\* ok response whose body did not parse.
C23_Witness ==
    /\ viaGetOrder /\ fpc = "done"
    /\ attempts = GetOrderRetryCount + 1 /\ fails = attempts
    /\ fout = "badJson"
    /\ fret = "error" /\ gret = "throw"

====
